---- MODULE Spec2Model ----
(***************************************************************************)
(* A model of the agent session of packages/ai-cli-exploration             *)
(* (src/core/BaseAIAgent.ts): the guarded entry point safeProcessInput,    *)
(* the error log and health flag kept by handleError and recordSuccess,    *)
(* the rate limiter isRateLimited and the bounded history of addTurn.      *)
(*                                                                         *)
(* Time is the reading of Date.now() in milliseconds.  A Date is modelled  *)
(* by its getTime() value.  Strings are modelled by records that carry     *)
(* the length the code inspects; messages by the text that identifies      *)
(* them plus the values interpolated into them.                            *)
(***************************************************************************)
EXTENDS Integers, Sequences, FiniteSets, TLC

VARIABLES
    ops,            \* operations performed since the set-up
    now,            \* the reading of Date.now() / new Date()
    agentType,      \* which subclass supplies processInput
    history,        \* BaseAIAgent.history
    errorHistory,   \* BaseAIAgent.errorHistory
    isHealthy,      \* BaseAIAgent.isHealthy
    memory,         \* BaseAIAgent.memory
    capabilities,   \* BaseAIAgent.capabilities
    context,        \* BaseAIAgent.context
    last,           \* what the last operation was given and what it gave back
    pending,        \* the calls of safeProcessInput suspended at their await
    files,          \* PersistenceManager: the files of the data directory
    loaded,         \* what the last loadAgentState returned
    exported,       \* what the last exportAllStates returned
    gameState,      \* DungeonMasterAgent.gameState
    savedGames,     \* DungeonMasterAgent.savedGames
    palace,         \* MemoryPalaceAgent.palace
    currentRoom,    \* MemoryPalaceAgent.currentRoom
    stages,         \* ReportPipeline.stages
    errorHandlers,  \* ReportPipeline.errorHandlers
    executed        \* what the last ReportPipeline.execute did

\* the variables of the session, of the persistence manager, of the Dungeon
\* Master's game, of the memory palace and of the report pipeline
sessionVars == <<ops, now, agentType, history, errorHistory, isHealthy, memory,
                 capabilities, context, last, pending>>
persistenceVars == <<files, loaded, exported>>
gameVars == <<gameState, savedGames>>
palaceVars == <<palace, currentRoom>>
pipelineVars == <<stages, errorHandlers, executed>>

vars == <<sessionVars, persistenceVars, gameVars, palaceVars, pipelineVars>>

\* what the methods of BaseAIAgent do not touch
elsewhere == <<pending, persistenceVars, gameVars, palaceVars, pipelineVars>>

\* what the constructor was given: no method assigns it
constructed == <<agentType, capabilities, context>>

(***************************************************************************)
(* Constants of the program.                                               *)
(***************************************************************************)
MaxInputLength == 10000
MaxTurnsPerMinute == 20
RateLimitWindow == 60000
MaxErrorHistory == 10
UnhealthyWindow == 60000
UnhealthyThreshold == 5
RecoveryWindow == 300000
RecoveryThreshold == 3
MaxHistory == 100
CompressedSize == 50
KeepFirst == 10
KeepLast == 40

(***************************************************************************)
(* Bounds of the model.                                                    *)
(***************************************************************************)
\* operations performed after the set-up of the session
MaxOps == 2
\* the short step by which the clock advances, half the one-minute window
ShortStep == 30000
\* the long step by which the clock advances, the five-minute window
LongStep == 300000
\* the largest number of user turns the caller preloads
MaxPreload == 21
\* the largest number of failing calls made during the set-up
MaxPrior == 10
\* the number of calls of a burst
MaxRapid == 25
\* the number of calls suspended at their await at one time
MaxPending == 1
\* the number of inputs of a game
MaxPlays == 4
\* the number of rooms of a palace
MaxRooms == 5
\* the number of inputs given to a palace
MaxVisits == 4
\* the number of stages of a pipeline
MaxStages == 3
\* the number of executions of a pipeline
MaxRuns == 2
\* the number of turns of a long conversation
MaxAppends == 160

TickSteps == {ShortStep, 2 * ShortStep, LongStep}
PreloadCounts == {MaxPreload - 1, MaxPreload}

(***************************************************************************)
(* Values.                                                                 *)
(***************************************************************************)
Roles == {"user", "assistant", "system"}

\* an input of safeProcessInput: typeof input, input.length and the text
InputNull == [type |-> "null", len |-> 0, text |-> "null"]
InputEmpty == [type |-> "string", len |-> 0, text |-> ""]
InputNumber == [type |-> "number", len |-> 0, text |-> "42"]
InputTest == [type |-> "string", len |-> 4, text |-> "test"]
InputMax == [type |-> "string", len |-> MaxInputLength, text |-> "a*10000"]
InputLong == [type |-> "string", len |-> MaxInputLength + 1, text |-> "a*10001"]
NoInput == [type |-> "none", len |-> 0, text |-> "none"]

Inputs == {InputNull, InputEmpty, InputNumber, InputTest, InputMax, InputLong}

\* what processInput does with an input it is given: it returns a reply,
\* throws an Error, throws an AgentException('TEST_ERROR', ...), throws an
\* AgentException('PROCESSING_ERROR', ..., false), or throws a value that is
\* not an object (throw null)
Outcomes == {"ok", "throwError", "throwAgent", "throwFatal", "throwNull"}

\* the outcomes that throw an object with a message
ThrowsError == {"throwError", "throwAgent", "throwFatal"}

\* the code of the entry without the instanceof test
codeOf_Unknown(outcome) == "UNKNOWN_ERROR"

\* error instanceof AgentException ? error.code : 'UNKNOWN_ERROR'
codeOf(outcome) ==
    CASE outcome = "throwAgent" -> "TEST_ERROR"
      [] outcome = "throwFatal" -> "PROCESSING_ERROR"
      [] OTHER -> "UNKNOWN_ERROR"

\* error instanceof AgentException ? error.recoverable : true
recoverableOf(outcome) ==
    IF outcome = "throwFatal" THEN FALSE ELSE TRUE

AgentTypes == {"TestAgent", "DungeonMasterAgent"}

\* the value of a property that is not there, of Map.get of a missing key
Undefined == "undefined"

\* the keys and the values the callers of remember and recall use
Keys == {"k1", "k2"}
Values == {"v1", "v2"}

\* new Map(): Map.get gives undefined for every key
EmptyMemory == [k \in Keys |-> Undefined]

\* AgentCapabilities: canRemember is optional
Capabilities == [canRemember : {Undefined, "false", "true"}]

\* capabilities = {} of the constructor
DefaultCapabilities == [canRemember |-> Undefined]

\* the capabilities the subclass passes to super(): TestAgent passes none
capabilitiesOf(type) ==
    IF type = "TestAgent" THEN DefaultCapabilities ELSE [canRemember |-> "true"]

\* AIContext.role of the subclass
contextOf(type) ==
    IF type = "TestAgent" THEN [role |-> "test agent"]
    ELSE IF type = "MemoryPalaceAgent"
    THEN [role |-> "a Memory Palace architect helping you build and navigate mnemonic spaces"]
    ELSE [role |-> "an immersive Dungeon Master for a text-based RPG"]

\* the truth value of if (value)
Truthy(value) == value = "true"

\* the ids under which agent states are saved
AgentIds == {"a", "b"}

\* no file of that name (ENOENT), null
NoFile == [agentType |-> "none"]

\* the game state of the DungeonMasterAgent constructor
InitialGameState ==
    [location |-> "Tavern of the Silver Dragon",
     inventory |-> <<"leather pouch (5 gold)", "mysterious map">>,
     health |-> 100, level |-> 1, experience |-> 0,
     questLog |-> <<"Find the lost artifact of Zephyr">>,
     npcRelationships |-> "Map", skills |-> "Map"]

\* initializePalace: the connections of each room
Room(name, connections, visitCount) ==
    [name |-> name, connections |-> connections, visitCount |-> visitCount]

InitialPalace ==
    [room \in {"entrance", "library", "garden"} |->
        CASE room = "entrance" ->
                 Room("Grand Entrance Hall", <<"library", "garden", "tower">>, 0)
          [] room = "library" -> Room("Ancient Library", <<"entrance">>, 0)
          [] room = "garden" -> Room("Zen Garden", <<"entrance">>, 0)]

NoRun == [n |-> 0, status |-> "none", result |-> <<>>, ran |-> <<>>,
          handled |-> <<>>, error |-> "none"]

\* a returned string: the text that identifies it and what is interpolated
Message(msg, code, count) == [msg |-> msg, code |-> code, count |-> count]
NoResult == Message("", "", 0)

\* the content of a turn: its text and the number interpolated into it
Content(text, n) == [text |-> text, n |-> n]

Turn(role, content, timestamp) ==
    [role |-> role, content |-> content, timestamp |-> timestamp]

AgentError(code, timestamp, recoverable) ==
    [code |-> code, timestamp |-> timestamp, recoverable |-> recoverable]

(***************************************************************************)
(* BaseAIAgent: history.                                                   *)
(***************************************************************************)
\* Array.prototype.slice(-n)
SliceLast(s, n) == IF Len(s) <= n THEN s ELSE SubSeq(s, Len(s) - n + 1, Len(s))

\* Array.prototype.slice(0, n)
SliceFirst(s, n) == IF Len(s) <= n THEN s ELSE SubSeq(s, 1, n)

\* compressHistory counting the turns held before the push
compressHistory_BeforePush(h, t) ==
    IF Len(h) > CompressedSize
    THEN SliceFirst(h, KeepFirst)
         \o <<Turn("system", Content("turns compressed", Len(h) - CompressedSize - 1), t)>>
         \o SliceLast(h, KeepLast)
    ELSE h

\* compressHistory keeping the marker of the previous compression
compressHistory_KeepsMarkers(h, t) ==
    IF Len(h) > CompressedSize
    THEN SliceFirst(h, IF h[KeepFirst + 1].role = "system"
                       THEN KeepFirst + 1 ELSE KeepFirst)
         \o <<Turn("system", Content("turns compressed", Len(h) - CompressedSize), t)>>
         \o SliceLast(h, KeepLast)
    ELSE h

compressHistory(h, t) ==
    IF Len(h) > CompressedSize
    THEN SliceFirst(h, KeepFirst)
         \o <<Turn("system", Content("turns compressed", Len(h) - CompressedSize), t)>>
         \o SliceLast(h, KeepLast)
    ELSE h

\* addTurn compressing as soon as the history holds 100 turns
addTurn_AtLimit(h, turn, t) ==
    LET pushed == Append(h, turn)
    IN  IF Len(pushed) >= MaxHistory THEN compressHistory(pushed, t) ELSE pushed

addTurn(h, turn, t) ==
    LET pushed == Append(h, turn)
    IN  IF Len(pushed) > MaxHistory THEN compressHistory(pushed, t) ELSE pushed

RECURSIVE addTurns(_, _, _)
\* the caller's loop that appends n user turns stamped with the current time
addTurns(h, n, t) ==
    IF n = 0 THEN h
    ELSE addTurn(addTurns(h, n - 1, t), Turn("user", Content("message", n - 1), t), t)

(***************************************************************************)
(* BaseAIAgent: memory.                                                    *)
(***************************************************************************)
\* remember storing the value whatever the capabilities
remember_Ungated(mem, caps, key, value) ==
    [mem EXCEPT ![key] = value]

\* the memory remember(key, value) leaves
remember(mem, caps, key, value) ==
    IF Truthy(caps.canRemember) THEN [mem EXCEPT ![key] = value] ELSE mem

\* this.memory.get(key)
recall(mem, key) == mem[key]

(***************************************************************************)
(* BaseAIAgent: rate limit, error log and health.                          *)
(***************************************************************************)
\* isRateLimited counting the turns of every role
isRateLimited_AnyRole(h, t) ==
    LET oneMinuteAgo == t - RateLimitWindow
        recentTurns == SelectSeq(h, LAMBDA turn : turn.timestamp > oneMinuteAgo)
    IN  Len(recentTurns) > MaxTurnsPerMinute

isRateLimited(h, t) ==
    LET oneMinuteAgo == t - RateLimitWindow
        recentTurns == SelectSeq(h, LAMBDA turn :
                           turn.timestamp > oneMinuteAgo /\ turn.role = "user")
    IN  Len(recentTurns) > MaxTurnsPerMinute

formatErrorResponse(code) ==
    CASE code = "INVALID_INPUT" -> Message("Invalid input", "", 0)
      [] code = "INPUT_TOO_LONG" -> Message("message is too long", "", 0)
      [] code = "RATE_LIMITED" -> Message("sending messages too quickly", "", 0)
      [] code = "AGENT_UNHEALTHY" -> Message("experiencing some difficulties", "", 0)
      [] code = "MEMORY_ERROR" -> Message("trouble accessing my memory", "", 0)
      [] code = "PROCESSING_ERROR" -> Message("issue processing your request", "", 0)
      [] OTHER -> Message("Something unexpected happened", code, 0)

\* the emergency message counting the errors logged before this one
getEmergencyResponse_Before(eh) == Message("AGENT EMERGENCY MODE", "", Len(eh) - 1)

getEmergencyResponse(eh) == Message("AGENT EMERGENCY MODE", "", Len(eh))

\* the errors of the log that the health check counts at time t
recentErrors(eh, t, window) ==
    SelectSeq(eh, LAMBDA e : t - e.timestamp < window)

\* handleError returning the emergency message only when it turns a healthy
\* session unhealthy
handleError_OnTransition(eh, healthy, t, code, recoverable) ==
    LET pushed == Append(eh, AgentError(code, t, recoverable))
        kept == IF Len(pushed) > MaxErrorHistory
                THEN SliceLast(pushed, MaxErrorHistory) ELSE pushed
        unhealthy == Len(recentErrors(kept, t, UnhealthyWindow)) > UnhealthyThreshold
    IN  [errorHistory |-> kept,
         isHealthy |-> IF unhealthy THEN FALSE ELSE healthy,
         result |-> IF unhealthy /\ healthy THEN getEmergencyResponse(kept)
                    ELSE formatErrorResponse(code)]

\* handleError marking the session unhealthy at 5 recent errors already
handleError_AtThreshold(eh, healthy, t, code, recoverable) ==
    LET pushed == Append(eh, AgentError(code, t, recoverable))
        kept == IF Len(pushed) > MaxErrorHistory
                THEN SliceLast(pushed, MaxErrorHistory) ELSE pushed
        unhealthy == Len(recentErrors(kept, t, UnhealthyWindow)) >= UnhealthyThreshold
    IN  [errorHistory |-> kept,
         isHealthy |-> IF unhealthy THEN FALSE ELSE healthy,
         result |-> IF unhealthy THEN getEmergencyResponse(kept)
                    ELSE formatErrorResponse(code)]

\* handleError trimming the log to its first 10 entries
handleError_KeepOldest(eh, healthy, t, code, recoverable) ==
    LET pushed == Append(eh, AgentError(code, t, recoverable))
        kept == IF Len(pushed) > MaxErrorHistory
                THEN SliceFirst(pushed, MaxErrorHistory) ELSE pushed
        unhealthy == Len(recentErrors(kept, t, UnhealthyWindow)) > UnhealthyThreshold
    IN  [errorHistory |-> kept,
         isHealthy |-> IF unhealthy THEN FALSE ELSE healthy,
         result |-> IF unhealthy THEN getEmergencyResponse(kept)
                    ELSE formatErrorResponse(code)]

\* handleError: the log, the health flag and the string it returns
handleError(eh, healthy, t, code, recoverable) ==
    LET pushed == Append(eh, AgentError(code, t, recoverable))
        kept == IF Len(pushed) > MaxErrorHistory
                THEN SliceLast(pushed, MaxErrorHistory) ELSE pushed
        unhealthy == Len(recentErrors(kept, t, UnhealthyWindow)) > UnhealthyThreshold
    IN  [errorHistory |-> kept,
         isHealthy |-> IF unhealthy THEN FALSE ELSE healthy,
         result |-> IF unhealthy THEN getEmergencyResponse(kept)
                    ELSE formatErrorResponse(code)]

\* recordSuccess restoring health whatever the log holds
recordSuccess_Always(eh, healthy, t) == TRUE

\* recordSuccess leaving the health flag as it is
recordSuccess_Never(eh, healthy, t) == healthy

recordSuccess(eh, healthy, t) ==
    IF ~healthy
    THEN IF Len(recentErrors(eh, t, RecoveryWindow)) < RecoveryThreshold
         THEN TRUE ELSE healthy
    ELSE healthy

(***************************************************************************)
(* The handlers: processInput of the subclasses.                           *)
(***************************************************************************)
\* TestAgent (test-runner.ts) touches no state; DungeonMasterAgent appends
\* the user turn, computes the response and appends the assistant turn.
\* The result is the history it leaves, how it ended and its reply.
processInput(type, h, t, input, outcome) ==
    IF type = "TestAgent"
    THEN [history |-> h, ended |-> outcome, reply |-> Message("success", "", 0)]
    ELSE LET asked == addTurn(h, Turn("user", Content(input.text, 0), t), t)
         IN  IF outcome = "ok"
             THEN [history |-> addTurn(asked,
                                   Turn("assistant", Content("response", 0), t), t),
                   ended |-> outcome,
                   reply |-> Message("response", "", 0)]
             ELSE [history |-> asked, ended |-> outcome, reply |-> NoResult]

(***************************************************************************)
(* safeProcessInput.                                                       *)
(***************************************************************************)
\* the check of the input without the typeof test
InvalidInput_FalsyOnly(input) ==
    input.type = "string" /\ input.len = 0

\* !input || typeof input !== 'string'
InvalidInput(input) ==
    \/ input.type = "null"
    \/ (input.type = "string" /\ input.len = 0)
    \/ input.type # "string"

\* validate rejecting a string of exactly the maximum length
validate_LengthInclusive(input, h, healthy, t) ==
    IF InvalidInput(input) THEN "INVALID_INPUT"
    ELSE IF input.len >= MaxInputLength THEN "INPUT_TOO_LONG"
    ELSE IF isRateLimited(h, t) THEN "RATE_LIMITED"
    ELSE IF ~healthy THEN "AGENT_UNHEALTHY"
    ELSE ""

\* validate with the health check ahead of the rate limit
validate_HealthFirst(input, h, healthy, t) ==
    IF InvalidInput(input) THEN "INVALID_INPUT"
    ELSE IF input.len > MaxInputLength THEN "INPUT_TOO_LONG"
    ELSE IF ~healthy THEN "AGENT_UNHEALTHY"
    ELSE IF isRateLimited(h, t) THEN "RATE_LIMITED"
    ELSE ""

\* validate without the health check
validate_NoHealthCheck(input, h, healthy, t) ==
    IF InvalidInput(input) THEN "INVALID_INPUT"
    ELSE IF input.len > MaxInputLength THEN "INPUT_TOO_LONG"
    ELSE IF isRateLimited(h, t) THEN "RATE_LIMITED"
    ELSE ""

\* the exception the checks before the handler throw, "" when none does
validate(input, h, healthy, t) ==
    IF InvalidInput(input) THEN "INVALID_INPUT"
    ELSE IF input.len > MaxInputLength THEN "INPUT_TOO_LONG"
    ELSE IF isRateLimited(h, t) THEN "RATE_LIMITED"
    ELSE IF ~healthy THEN "AGENT_UNHEALTHY"
    ELSE ""

\* safeProcessInput on session s at time t: the session it leaves, whether
\* the handler was invoked, whether an error was recorded, whether an
\* exception left the call, and the string returned
submit(s, t, type, input, outcome) ==
    LET thrown == validate(input, s.history, s.isHealthy, t)
        run == processInput(type, s.history, t, input, outcome)
        caught == IF thrown # ""
                  THEN handleError(s.errorHistory, s.isHealthy, t, thrown, TRUE)
                  ELSE handleError(s.errorHistory, s.isHealthy, t,
                                   codeOf(run.ended), recoverableOf(run.ended))
    IN  CASE thrown # "" ->
               \* a check threw: the catch block calls handleError
               [history |-> s.history, errorHistory |-> caught.errorHistory,
                isHealthy |-> caught.isHealthy, invoked |-> FALSE,
                recorded |-> TRUE, raised |-> FALSE, result |-> caught.result]
          [] thrown = "" /\ run.ended = "ok" ->
               [history |-> run.history, errorHistory |-> s.errorHistory,
                isHealthy |-> recordSuccess(s.errorHistory, s.isHealthy, t),
                invoked |-> TRUE, recorded |-> FALSE, raised |-> FALSE,
                result |-> run.reply]
          [] thrown = "" /\ run.ended \in ThrowsError ->
               [history |-> run.history, errorHistory |-> caught.errorHistory,
                isHealthy |-> caught.isHealthy, invoked |-> TRUE,
                recorded |-> TRUE, raised |-> FALSE, result |-> caught.result]
          [] thrown = "" /\ run.ended = "throwNull" ->
               \* handleError reads error.message of a value that is not an
               \* object: the TypeError leaves the catch block
               [history |-> run.history, errorHistory |-> s.errorHistory,
                isHealthy |-> s.isHealthy, invoked |-> TRUE,
                recorded |-> FALSE, raised |-> TRUE, result |-> NoResult]

Session(h, eh, healthy) == [history |-> h, errorHistory |-> eh, isHealthy |-> healthy]

session == Session(history, errorHistory, isHealthy)

\* what an operation was given, the state it found and what it gave back
Observed(op, input, outcome, invoked, recorded, raised, result) ==
    [op |-> op, input |-> input, outcome |-> outcome,
     wasHealthy |-> isHealthy, wasLimited |-> isRateLimited(history, now),
     hadMemory |-> memory # EmptyMemory, key |-> Undefined, value |-> Undefined,
     invoked |-> invoked, recorded |-> recorded, raised |-> raised,
     result |-> result]

\* one call of safeProcessInput, run to completion before the next operation:
\* every reading of the clock within the call gives the same time
Call(input, outcome) ==
    LET r == submit(session, now, agentType, input, outcome)
    IN  /\ history' = r.history
        /\ errorHistory' = r.errorHistory
        /\ isHealthy' = r.isHealthy
        /\ last' = Observed("submit", input, outcome,
                            r.invoked, r.recorded, r.raised, r.result)
        /\ UNCHANGED <<now, constructed, elsewhere, memory>>

\* the handler is never consulted about an input the input checks reject:
\* one outcome stands for all
Consulted(input, outcome) ==
    (InvalidInput(input) \/ input.len > MaxInputLength) => outcome = "ok"

safeProcessInput(input, outcome) ==
    /\ ops < MaxOps
    /\ ops' = ops + 1
    /\ Consulted(input, outcome)
    /\ Call(input, outcome)

\* set-up: the caller preloads n user turns into the new session
Preload(n) ==
    /\ ops = 0
    /\ last.op = "init"
    /\ history' = addTurns(history, n, now)
    /\ last' = Observed("addTurn", NoInput, "none", FALSE, FALSE, FALSE, NoResult)
    /\ UNCHANGED <<ops, now, constructed, elsewhere, errorHistory, isHealthy,
                   memory>>

\* set-up: one more call of the caller's loop of calls whose handler fails
FailingLoop ==
    /\ ops = 0
    /\ Len(errorHistory) < MaxPrior
    /\ Call(InputTest, "throwError")
    /\ UNCHANGED ops

\* what the operation given to safeMemoryOperation does: the catch block
\* does not look at the value thrown
OperationOutcomes == {"ok", "throwError", "throwNull"}

\* safeMemoryOperation returning the fallback without recording the failure
safeMemoryOperation_Unrecorded(outcome) ==
    /\ ops < MaxOps
    /\ ops' = ops + 1
    /\ last' = Observed("memory", NoInput, outcome, TRUE, FALSE, FALSE,
                        IF outcome = "ok" THEN Message("result", "", 0)
                        ELSE Message("fallback", "", 0))
    /\ UNCHANGED <<now, constructed, elsewhere, history, errorHistory, isHealthy,
                   memory>>

\* safeMemoryOperation: the operation returns, or it throws and the
\* fallback is returned after handleError has recorded a MEMORY_ERROR
safeMemoryOperation(outcome) ==
    /\ ops < MaxOps
    /\ ops' = ops + 1
    /\ IF outcome = "ok"
       THEN /\ UNCHANGED <<errorHistory, isHealthy>>
            /\ last' = Observed("memory", NoInput, outcome, TRUE, FALSE, FALSE,
                                Message("result", "", 0))
       ELSE LET h == handleError(errorHistory, isHealthy, now, "MEMORY_ERROR", TRUE)
            IN  /\ errorHistory' = h.errorHistory
                /\ isHealthy' = h.isHealthy
                /\ last' = Observed("memory", NoInput, outcome, TRUE, TRUE, FALSE,
                                    Message("fallback", "", 0))
    /\ UNCHANGED <<now, constructed, elsewhere, history, memory>>

\* the caller appends a turn stamped with the current time
AddTurn(role) ==
    /\ ops < MaxOps
    /\ ops' = ops + 1
    /\ history' = addTurn(history, Turn(role, Content("note", 0), now), now)
    /\ last' = Observed("addTurn", NoInput, "none", FALSE, FALSE, FALSE, NoResult)
    /\ UNCHANGED <<now, constructed, elsewhere, errorHistory, isHealthy,
                   memory>>

\* reset leaving the memory as it is
reset_KeepsMemory ==
    /\ ops < MaxOps
    /\ ops' = ops + 1
    /\ history' = <<>>
    /\ errorHistory' = <<>>
    /\ isHealthy' = TRUE
    /\ last' = Observed("reset", NoInput, "none", FALSE, FALSE, FALSE, NoResult)
    /\ UNCHANGED <<now, constructed, elsewhere, memory>>

reset ==
    /\ ops < MaxOps
    /\ ops' = ops + 1
    /\ history' = <<>>
    /\ memory' = EmptyMemory
    /\ errorHistory' = <<>>
    /\ isHealthy' = TRUE
    /\ last' = Observed("reset", NoInput, "none", FALSE, FALSE, FALSE, NoResult)
    /\ UNCHANGED <<now, constructed, elsewhere>>

\* the caller stores a value under a key
Remember(key, value) ==
    /\ ops < MaxOps
    /\ ops' = ops + 1
    /\ memory' = remember(memory, capabilities, key, value)
    /\ last' = [Observed("remember", NoInput, "none", FALSE, FALSE, FALSE, NoResult)
                   EXCEPT !.key = key, !.value = value]
    /\ UNCHANGED <<now, constructed, elsewhere, history, errorHistory,
                   isHealthy>>

\* the caller reads the value stored under a key
Recall(key) ==
    /\ ops < MaxOps
    /\ ops' = ops + 1
    /\ last' = [Observed("recall", NoInput, "none", FALSE, FALSE, FALSE,
                         Message(recall(memory, key), "", 0))
                   EXCEPT !.key = key]
    /\ UNCHANGED <<now, constructed, elsewhere, history, errorHistory, isHealthy,
                   memory>>

\* time passes between two operations
Tick(d) ==
    /\ ops < MaxOps
    /\ ops' = ops + 1
    /\ now' = now + d
    /\ last' = Observed("tick", NoInput, "none", FALSE, FALSE, FALSE, NoResult)
    /\ UNCHANGED <<constructed, elsewhere, history, errorHistory, isHealthy,
                   memory>>

(***************************************************************************)
(* The other objects as constructed.                                       *)
(***************************************************************************)
\* PersistenceManager: an empty data directory
NothingSaved ==
    /\ files = [id \in AgentIds |-> NoFile]
    /\ loaded = NoFile
    /\ exported = [id \in AgentIds |-> NoFile]

\* DungeonMasterAgent: the game of the constructor, nothing saved
NewGame ==
    /\ gameState = InitialGameState
    /\ savedGames = <<>>

\* MemoryPalaceAgent: the palace initializePalace builds
NewPalace ==
    /\ palace = InitialPalace
    /\ currentRoom = "entrance"

\* ReportPipeline: no stage, no handler, never executed
NewPipeline ==
    /\ stages = <<>>
    /\ errorHandlers = <<>>
    /\ executed = NoRun

\* the session as the constructor of the subclass leaves it
Constructed(type, caps) ==
    /\ ops = 0
    /\ now = 0
    /\ agentType = type
    /\ history = <<>>
    /\ errorHistory = <<>>
    /\ isHealthy = TRUE
    /\ memory = EmptyMemory
    /\ capabilities = caps
    /\ context = contextOf(type)
    /\ pending = <<>>
    /\ NothingSaved
    /\ NewGame
    /\ NewPalace
    /\ NewPipeline
    /\ last = [op |-> "init", input |-> NoInput, outcome |-> "none",
               wasHealthy |-> TRUE, wasLimited |-> FALSE, hadMemory |-> FALSE,
               key |-> Undefined, value |-> Undefined, invoked |-> FALSE,
               recorded |-> FALSE, raised |-> FALSE, result |-> NoResult]

Init == \E type \in AgentTypes : Constructed(type, capabilitiesOf(type))

Next ==
    \/ \E n \in PreloadCounts : Preload(n)
    \/ FailingLoop
    \/ \E input \in Inputs, outcome \in Outcomes : safeProcessInput(input, outcome)
    \/ \E outcome \in OperationOutcomes : safeMemoryOperation(outcome)
    \/ \E role \in Roles : AddTurn(role)
    \/ reset
    \/ \E d \in TickSteps : Tick(d)

Spec == Init /\ [][Next]_vars

(***************************************************************************)
(* A burst of calls: one caller submits MaxRapid well-formed inputs to a   *)
(* session with canRemember whose handler always returns, all within one   *)
(* rate-limit window.                                                      *)
(***************************************************************************)
RapidCall ==
    /\ ops < MaxRapid
    /\ ops' = ops + 1
    /\ Call(InputTest, "ok")

\* time passes between two calls, short of the one-minute window
ShortTick ==
    /\ now + ShortStep < RateLimitWindow
    /\ now' = now + ShortStep
    /\ last' = Observed("tick", NoInput, "none", FALSE, FALSE, FALSE, NoResult)
    /\ UNCHANGED <<ops, constructed, elsewhere, history, errorHistory, isHealthy,
                   memory>>

RapidInit == \E type \in AgentTypes : Constructed(type, [canRemember |-> "true"])

RapidNext == RapidCall \/ ShortTick

SpecRapid == RapidInit /\ [][RapidNext]_vars

(***************************************************************************)
(* Properties.                                                             *)
(***************************************************************************)
\* the entry handleError pushed last
LastError(eh) == eh[Len(eh)]

\* the log after an error of the given kind is recorded at time t
Recorded(eh, code, t) ==
    SliceLast(Append(eh, AgentError(code, t, TRUE)), MaxErrorHistory)

\* the entries of a log stamped within the trailing window at time t
Within(eh, t, window) ==
    Cardinality({i \in 1..Len(eh) : t - eh[i].timestamp < window})

\* the user turns of a history stamped within the trailing minute at time t
RecentUserTurns(h, t) ==
    Cardinality({i \in 1..Len(h) :
        h[i].role = "user" /\ h[i].timestamp > t - RateLimitWindow})

\* a non-empty string of at most 10000 characters
WellFormed(input) ==
    input.type = "string" /\ input.len > 0 /\ input.len <= MaxInputLength

EmergencyMessage(n) == Message("AGENT EMERGENCY MODE", "", n)

\* C1: whatever the session state and the input, and however the handler
\* fails, safeProcessInput returns a string: no exception reaches the caller.
C1_NeverRaises ==
    last.op = "submit" => (~last.raised /\ last.result # NoResult)

\* C2: a call made while the session is unhealthy never invokes the
\* handler, and when its input is a well-formed string and the session is
\* not rate limited the call records one AGENT_UNHEALTHY error.
C2_UnhealthyGate ==
    [][(last'.op = "submit" /\ ~isHealthy) =>
          /\ ~last'.invoked
          /\ (WellFormed(last'.input) /\ ~isRateLimited(history, now)) =>
                /\ last'.recorded
                /\ errorHistory' = Recorded(errorHistory, "AGENT_UNHEALTHY", now)]_vars

\* C2 witness: a well-formed input was submitted to an unhealthy session
\* that was not rate limited, and AGENT_UNHEALTHY was recorded
C2_Witness ==
    /\ last.op = "submit" /\ ~last.wasHealthy /\ ~last.wasLimited
    /\ last.input = InputTest /\ last.outcome = "ok" /\ ~last.invoked
    /\ LastError(errorHistory).code = "AGENT_UNHEALTHY"

\* C3: healthy turns from true to false exactly in a step that records an
\* error (of a check, of the handler or of safeMemoryOperation) after which
\* more than 5 entries of the log lie within the trailing 60 seconds.
C3_UnhealthyTransition ==
    [][(isHealthy /\ ~isHealthy') <=>
          /\ isHealthy
          /\ last'.recorded
          /\ Within(errorHistory', now', UnhealthyWindow) > UnhealthyThreshold]_vars

\* C3 witness: the call that recorded the sixth error within a minute
\* turned a healthy session unhealthy
C3_Witness ==
    /\ last.recorded /\ last.wasHealthy /\ ~isHealthy
    /\ Within(errorHistory, now, UnhealthyWindow) = UnhealthyThreshold + 1

\* C4: an unhealthy session recovers through a call alone: once fewer than 3
\* entries of the log lie within the trailing 5 minutes, the call of a
\* well-formed input whose handler succeeds returns the handler's reply and
\* leaves the session healthy.
C4_RecoversThroughSubmit ==
    [][(/\ last'.op = "submit"
        /\ ~isHealthy
        /\ Within(errorHistory, now, RecoveryWindow) < RecoveryThreshold
        /\ WellFormed(last'.input)
        /\ ~isRateLimited(history, now)
        /\ last'.outcome = "ok")
       => (isHealthy' /\ last'.result.msg \in {"success", "response"})]_vars

C6_FirstMatchWins ==
    [][(last'.op = "submit" /\ ~last'.invoked) =>
          LET input == last'.input
              kind == LastError(errorHistory').code
              empty == input.type # "string" \/ input.len = 0
              long == input.len > MaxInputLength
              limited == RecentUserTurns(history, now) > MaxTurnsPerMinute
          IN  /\ last'.recorded
              /\ empty => kind = "INVALID_INPUT"
              /\ (~empty /\ long) => kind = "INPUT_TOO_LONG"
              /\ (~empty /\ ~long /\ limited) => kind = "RATE_LIMITED"
              /\ (~empty /\ ~long /\ ~limited) =>
                    (kind = "AGENT_UNHEALTHY" /\ ~isHealthy)]_vars

\* C6 witness: a well-formed input submitted to a session that was both
\* rate limited and unhealthy was recorded as RATE_LIMITED
C6_Witness ==
    /\ last.op = "submit" /\ last.input = InputTest
    /\ last.wasLimited /\ ~last.wasHealthy
    /\ LastError(errorHistory).code = "RATE_LIMITED"

\* C7 as stated: in every session state the calls submit("") and
\* submit(null) return the INVALID_INPUT message and append one entry.
C7_AlwaysInvalidInputMessage ==
    [][(last'.op = "submit" /\ last'.input \in {InputEmpty, InputNull}) =>
          /\ last'.result = formatErrorResponse("INVALID_INPUT")
          /\ errorHistory' = Recorded(errorHistory, "INVALID_INPUT", now)]_vars

\* C7 as amended: submit("") and submit(null) never invoke the handler and
\* append one INVALID_INPUT entry (the oldest entry leaves a log of 10); they
\* return the INVALID_INPUT message unless, the new entry included, more
\* than 5 entries lie within the trailing 60 seconds, and then they return
\* the emergency message with the length of the log.
C7_InvalidInput ==
    [][(last'.op = "submit" /\ last'.input \in {InputEmpty, InputNull}) =>
          /\ ~last'.invoked /\ ~last'.raised
          /\ errorHistory' = Recorded(errorHistory, "INVALID_INPUT", now)
          /\ history' = history
          /\ last'.result =
                IF Within(errorHistory', now, UnhealthyWindow) > UnhealthyThreshold
                THEN EmergencyMessage(Len(errorHistory'))
                ELSE formatErrorResponse("INVALID_INPUT")]_vars

\* C7 witness: submit(null) recorded INVALID_INPUT as the sixth error of
\* the minute and returned the emergency message
C7_Witness ==
    /\ last.op = "submit" /\ last.input = InputNull
    /\ LastError(errorHistory).code = "INVALID_INPUT"
    /\ last.result = EmergencyMessage(UnhealthyThreshold + 1)

\* C8 as stated: in every session state the call of an input longer than
\* 10000 characters returns the INPUT_TOO_LONG message and does not invoke
\* the handler; an input of exactly 10000 characters is not rejected as too
\* long.
C8_AlwaysTooLongMessage ==
    [][(last'.op = "submit" /\ last'.input.type = "string") =>
          /\ last'.input.len > MaxInputLength =>
                /\ last'.result = formatErrorResponse("INPUT_TOO_LONG")
                /\ ~last'.invoked
          /\ last'.input.len = MaxInputLength =>
                (last'.recorded => LastError(errorHistory').code # "INPUT_TOO_LONG")]_vars

\* C8 as amended: the call of a string longer than 10000 characters never
\* invokes the handler and appends one INPUT_TOO_LONG entry; it returns the
\* INPUT_TOO_LONG message unless, the new entry included, more than 5
\* entries lie within the trailing 60 seconds, and then it returns the
\* emergency message.  A string of exactly 10000 characters is never
\* recorded as INPUT_TOO_LONG.
C8_TooLong ==
    [][(last'.op = "submit" /\ last'.input.type = "string") =>
          /\ last'.input.len > MaxInputLength =>
                /\ ~last'.invoked /\ ~last'.raised
                /\ errorHistory' = Recorded(errorHistory, "INPUT_TOO_LONG", now)
                /\ last'.result =
                      IF Within(errorHistory', now, UnhealthyWindow) > UnhealthyThreshold
                      THEN EmergencyMessage(Len(errorHistory'))
                      ELSE formatErrorResponse("INPUT_TOO_LONG")
          /\ last'.input.len = MaxInputLength =>
                (last'.recorded => LastError(errorHistory').code # "INPUT_TOO_LONG")]_vars

\* C8 witness: a string of 10001 characters was recorded as INPUT_TOO_LONG
\* by a call that returned the emergency message
C8_Witness ==
    /\ last.op = "submit" /\ last.input = InputLong
    /\ LastError(errorHistory).code = "INPUT_TOO_LONG"
    /\ last.result.msg = "AGENT EMERGENCY MODE"

\* the calls recorded in the log were all made within the trailing minute
AllWithinMinute == Within(errorHistory, now, UnhealthyWindow) = Len(errorHistory)

\* C9: of the failing calls made within 60 seconds to a session whose log
\* was empty, the first five each return the message of their kind and leave
\* the session healthy; the sixth finds it healthy, turns it unhealthy and
\* returns the emergency message, which shows the count 6.
C9_SixFailures ==
    (last.op = "submit" /\ last.recorded /\ AllWithinMinute) =>
        /\ Len(errorHistory) <= UnhealthyThreshold =>
              /\ isHealthy
              /\ last.result = formatErrorResponse(LastError(errorHistory).code)
        /\ Len(errorHistory) = UnhealthyThreshold + 1 =>
              /\ last.wasHealthy /\ ~isHealthy
              /\ last.result = EmergencyMessage(6)

\* C9 witness: the handler failed for the sixth time within the minute and
\* the call returned the emergency message with count 6
C9_Witness ==
    /\ last.op = "submit" /\ last.invoked /\ last.outcome = "throwError"
    /\ Len(errorHistory) = 6 /\ AllWithinMinute
    /\ \A i \in 1..6 : errorHistory[i].code = "UNKNOWN_ERROR"
    /\ ~isHealthy /\ last.result = EmergencyMessage(6)

\* C10 as stated: the emergency message is returned only by the call that
\* turns the session unhealthy; a call made while the session is unhealthy
\* whose AGENT_UNHEALTHY error is recorded returns the AGENT_UNHEALTHY message.
C10_EmergencyOnlyOnTransition ==
    /\ (last.op = "submit" /\ last.result.msg = "AGENT EMERGENCY MODE") =>
          last.wasHealthy
    /\ (/\ last.op = "submit" /\ last.recorded /\ ~last.wasHealthy
        /\ LastError(errorHistory).code = "AGENT_UNHEALTHY") =>
          last.result = formatErrorResponse("AGENT_UNHEALTHY")

\* C10 as amended: a call that records an error returns the emergency
\* message whenever, the new entry included, more than 5 entries of the log
\* lie within the trailing 60 seconds, whether or not the session was healthy
\* before; so a call rejected as AGENT_UNHEALTHY (handler not invoked) returns
\* the emergency message again while that holds, and the AGENT_UNHEALTHY
\* message otherwise.
C10_EmergencyWhileErrorsRecent ==
    /\ (last.op = "submit" /\ last.recorded) =>
          (last.result.msg = "AGENT EMERGENCY MODE"
             <=> Within(errorHistory, now, UnhealthyWindow) > UnhealthyThreshold)
    /\ (/\ last.op = "submit" /\ last.recorded /\ ~last.wasHealthy
        /\ LastError(errorHistory).code = "AGENT_UNHEALTHY") =>
          /\ ~last.invoked
          /\ last.result =
                IF Within(errorHistory, now, UnhealthyWindow) > UnhealthyThreshold
                THEN EmergencyMessage(Len(errorHistory))
                ELSE formatErrorResponse("AGENT_UNHEALTHY")

\* C10 witness: the seventh call in a row, rejected as AGENT_UNHEALTHY
\* without the handler being invoked, returned the emergency message
C10_Witness ==
    /\ last.op = "submit" /\ ~last.wasHealthy /\ ~last.invoked
    /\ Len(errorHistory) = 7
    /\ \A i \in 1..6 : errorHistory[i].code = "UNKNOWN_ERROR"
    /\ errorHistory[7].code = "AGENT_UNHEALTHY"
    /\ last.result = EmergencyMessage(7)

(***************************************************************************)
(* The memory of a session constructed with any capabilities: after the    *)
(* set-up the caller stores and reads values, runs memory operations and   *)
(* resets the session.                                                     *)
(***************************************************************************)
MemoryInit ==
    \E type \in AgentTypes, caps \in Capabilities : Constructed(type, caps)

MemoryNext ==
    \/ \E n \in PreloadCounts : Preload(n)
    \/ FailingLoop
    \/ \E key \in Keys, value \in Values : Remember(key, value)
    \/ \E key \in Keys : Recall(key)
    \/ \E outcome \in OperationOutcomes : safeMemoryOperation(outcome)
    \/ reset

SpecMemory == MemoryInit /\ [][MemoryNext]_vars

(***************************************************************************)
(* Overlapping calls.  safeProcessInput runs its checks and the handler up *)
(* to its first await without interruption; other calls and the clock may  *)
(* run before the handler completes, and the rest of safeProcessInput runs *)
(* then.                                                                   *)
(***************************************************************************)
\* the history the handler leaves when it reaches its await
begun(type, h, t, input) ==
    IF type = "TestAgent" THEN h
    ELSE addTurn(h, Turn("user", Content(input.text, 0), t), t)

\* the history the handler leaves when it completes, and its reply
completed(type, h, t, outcome) ==
    IF type = "TestAgent"
    THEN [history |-> h, reply |-> Message("success", "", 0)]
    ELSE IF outcome = "ok"
         THEN [history |-> addTurn(h, Turn("assistant", Content("response", 0), t), t),
               reply |-> Message("response", "", 0)]
         ELSE [history |-> h, reply |-> NoResult]

\* set-up: a call passes the four checks and its handler is suspended
BeginCall(input, outcome) ==
    /\ ops = 0
    /\ Len(pending) < MaxPending
    /\ validate(input, history, isHealthy, now) = ""
    /\ pending' = Append(pending, [input |-> input, outcome |-> outcome])
    /\ history' = begun(agentType, history, now, input)
    /\ last' = Observed("begin", input, outcome, TRUE, FALSE, FALSE, NoResult)
    /\ UNCHANGED <<ops, now, constructed, errorHistory, isHealthy, memory,
                   persistenceVars, gameVars, palaceVars, pipelineVars>>

\* the handler of the oldest suspended call completes: recordSuccess and
\* the reply, or handleError and its string
CompleteCall ==
    /\ ops < MaxOps
    /\ ops' = ops + 1
    /\ pending # <<>>
    /\ pending' = Tail(pending)
    /\ LET call == Head(pending)
           done == completed(agentType, history, now, call.outcome)
           caught == handleError(errorHistory, isHealthy, now,
                                 codeOf(call.outcome), recoverableOf(call.outcome))
       IN  /\ history' = done.history
           /\ IF call.outcome = "ok"
              THEN /\ errorHistory' = errorHistory
                   /\ isHealthy' = recordSuccess(errorHistory, isHealthy, now)
                   /\ last' = Observed("complete", call.input, call.outcome,
                                       TRUE, FALSE, FALSE, done.reply)
              ELSE /\ errorHistory' = caught.errorHistory
                   /\ isHealthy' = caught.isHealthy
                   /\ last' = Observed("complete", call.input, call.outcome,
                                       TRUE, TRUE, FALSE, caught.result)
    /\ UNCHANGED <<now, constructed, memory, persistenceVars, gameVars,
                   palaceVars, pipelineVars>>

\* getHealthStatus reads the flag and the log
getHealthStatus ==
    /\ ops < MaxOps
    /\ ops' = ops + 1
    /\ last' = Observed("health", NoInput, "none", FALSE, FALSE, FALSE,
                        Message(IF isHealthy THEN "healthy" ELSE "unhealthy", "",
                                Len(errorHistory)))
    /\ UNCHANGED <<now, constructed, elsewhere, history, errorHistory, isHealthy,
                   memory>>

OverlapNext ==
    \/ \E outcome \in {"ok", "throwError"} : BeginCall(InputTest, outcome)
    \/ FailingLoop
    \/ CompleteCall
    \/ \E input \in Inputs, outcome \in Outcomes : safeProcessInput(input, outcome)
    \/ \E key \in Keys, value \in Values : Remember(key, value)
    \/ \E key \in Keys : Recall(key)
    \/ getHealthStatus
    \/ reset
    \/ \E d \in TickSteps : Tick(d)

SpecOverlap == Init /\ [][OverlapNext]_vars

(***************************************************************************)
(* DungeonMasterAgent.  The text of an input is its words followed by a    *)
(* save id save_<digits> when it names one; no word used here contains a   *)
(* keyword of parseAction other than itself.                               *)
(***************************************************************************)
NoId == -1

Text(words, saveId) == [words |-> words, saveId |-> saveId]

\* `save_${n}`
SaveId(n) == n

\* the ids a player names: those Date.now() can give here and one never given
NamedIds == {0, ShortStep, 1}

GameTexts ==
    {Text(<<"save", "game">>, NoId), Text(<<"load">>, NoId),
     Text(<<"go", "forest">>, NoId), Text(<<"go", "tavern">>, NoId),
     Text(<<"use", "mysterious", "map">>, NoId),
     Text(<<"look", "around">>, NoId)}
    \cup {Text(<<"load">>, SaveId(n)) : n \in NamedIds}

GameInput(text) ==
    [type |-> "string", len |-> Len(text.words) + 1, text |-> text]

\* String.prototype.includes on the lower-cased text; a save id begins
\* with the letters save
includes(text, keyword) ==
    \/ \E i \in 1..Len(text.words) : text.words[i] = keyword
    \/ (text.saveId # NoId /\ keyword = "save")

\* input.match(/save_\d+/)?.[0]
matchSaveId(text) == text.saveId

\* JSON.parse(JSON.stringify(state)): a Map comes back as an empty object
jsonGameState(g) == [g EXCEPT !.npcRelationships = "Object", !.skills = "Object"]

parseAction(text) ==
    IF includes(text, "roll") \/ includes(text, "dice") THEN "roll"
    ELSE IF includes(text, "save") \/ includes(text, "load") THEN "save"
    ELSE IF includes(text, "expand") \/ includes(text, "generate") THEN "worldgen"
    ELSE IF includes(text, "status") \/ includes(text, "stats") THEN "status"
    ELSE IF includes(text, "equip") \/ includes(text, "wear") THEN "equipment"
    ELSE IF includes(text, "attack") \/ includes(text, "fight")
            \/ includes(text, "cast") THEN "combat"
    ELSE IF includes(text, "talk") \/ includes(text, "ask") THEN "dialogue"
    ELSE IF includes(text, "go") \/ includes(text, "explore")
            \/ includes(text, "venture") THEN "exploration"
    ELSE IF includes(text, "inventory") \/ includes(text, "use") THEN "inventory"
    ELSE "narrative"

\* the saves kept with the state g stored under id
setSave(saves, id, g) ==
    [n \in DOMAIN saves \cup {id} |-> IF n = id THEN g ELSE saves[n]]

Played(g, saves, msg, id) ==
    [gameState |-> g, savedGames |-> saves, reply |-> Message(msg, "", id)]

\* handleSaveLoad testing for load before save
handleSaveLoad_LoadFirst(g, saves, t, text) ==
    IF includes(text, "load")
    THEN IF matchSaveId(text) # NoId /\ matchSaveId(text) \in DOMAIN saves
         THEN Played(jsonGameState(saves[matchSaveId(text)]), saves,
                     "Game loaded", matchSaveId(text))
         ELSE Played(g, saves, "No save found", 0)
    ELSE IF includes(text, "save")
    THEN Played(g, setSave(saves, SaveId(t), jsonGameState(g)), "Game saved", SaveId(t))
    ELSE Played(g, saves, "Available saves", 0)

handleSaveLoad(g, saves, t, text) ==
    IF includes(text, "save")
    THEN Played(g, setSave(saves, SaveId(t), jsonGameState(g)), "Game saved", SaveId(t))
    ELSE IF includes(text, "load")
    THEN IF matchSaveId(text) # NoId /\ matchSaveId(text) \in DOMAIN saves
         THEN Played(jsonGameState(saves[matchSaveId(text)]), saves,
                     "Game loaded", matchSaveId(text))
         ELSE Played(g, saves, "No save found", 0)
    ELSE Played(g, saves, "Available saves", 0)

parseDestination(text) ==
    IF includes(text, "forest") THEN "Forest of Whispers"
    ELSE IF includes(text, "crystal") \/ includes(text, "cavern") THEN "Crystal Caverns"
    ELSE IF includes(text, "tavern") THEN "Tavern of the Silver Dragon"
    ELSE "unknown location"

\* the keys initializeWorld puts into worldLore
worldLore ==
    {"Tavern of the Silver Dragon", "Forest of Whispers", "Crystal Caverns",
     "artifact of Zephyr"}

handleExploration(g, saves, text) ==
    IF parseDestination(text) \in worldLore
    THEN Played([g EXCEPT !.location = parseDestination(text)], saves, "You arrive", 0)
    ELSE Played(g, saves, "That path seems blocked", 0)

\* item.split(' ')[0]
firstWord(item) ==
    IF item = "leather pouch (5 gold)" THEN "leather" ELSE "mysterious"

\* the first item of the inventory whose first word the text includes
findItemInInventory(g, text) ==
    LET found == {i \in 1..Len(g.inventory) : includes(text, firstWord(g.inventory[i]))}
    IN  IF found = {} THEN "null"
        ELSE g.inventory[CHOOSE i \in found : \A j \in found : i <= j]

handleInventory(g, saves, text) ==
    IF findItemInInventory(g, text) = "mysterious map"
    THEN Played([g EXCEPT !.questLog =
                    Append(@, "Map reveals: Crystal Caverns location")],
                saves, "You unfurl the mysterious map", 0)
    ELSE IF findItemInInventory(g, text) # "null"
    THEN Played(g, saves, "You examine", 0)
    ELSE Played(g, saves, "Your inventory contains", 0)

\* generateResponse for the actions the texts played here parse to
generateResponse(g, saves, t, text) ==
    CASE parseAction(text) = "save" -> handleSaveLoad(g, saves, t, text)
      [] parseAction(text) = "exploration" -> handleExploration(g, saves, text)
      [] parseAction(text) = "inventory" -> handleInventory(g, saves, text)
      [] parseAction(text) = "narrative" -> Played(g, saves, "narrateScene", 0)

\* safeProcessInput of a DungeonMasterAgent on the text of a player
Play(text) ==
    LET r == submit(session, now, agentType, GameInput(text), "ok")
        g == generateResponse(gameState, savedGames, now, text)
    IN  /\ ops < MaxPlays
        /\ ops' = ops + 1
        /\ agentType = "DungeonMasterAgent"
        /\ history' = r.history
        /\ errorHistory' = r.errorHistory
        /\ isHealthy' = r.isHealthy
        /\ gameState' = IF r.invoked THEN g.gameState ELSE gameState
        /\ savedGames' = IF r.invoked THEN g.savedGames ELSE savedGames
        /\ last' = Observed("play", GameInput(text), "ok", r.invoked, r.recorded,
                            r.raised, IF r.invoked THEN g.reply ELSE r.result)
        /\ UNCHANGED <<now, constructed, memory, pending, persistenceVars,
                       palaceVars, pipelineVars>>

GameInit == Constructed("DungeonMasterAgent", capabilitiesOf("DungeonMasterAgent"))

GameNext ==
    \/ \E text \in GameTexts : Play(text)
    \/ ShortTick

SpecGame == GameInit /\ [][GameNext]_vars

(***************************************************************************)
(* MemoryPalaceAgent.  A room is kept with its name, its connections and   *)
(* its visit count; the inputs given here reach buildRoom, navigateToRoom  *)
(* and showPalaceMap.                                                      *)
(***************************************************************************)
\* the keys of the palace in the order of their insertion
RoomKeys ==
    <<"entrance", "library", "garden", "room_3", "room_4", "room_5", "room_6",
      "room_7">>

\* `room_${this.palace.size}`
roomName(p) == RoomKeys[Cardinality(DOMAIN p) + 1]

\* the descriptions generateRoomDescription draws from, two of the eight
RoomDescriptions == {"Mirror Maze", "Cloud Library"}

\* the lower-cased words of a name
wordsOf(name) ==
    CASE name = "Grand Entrance Hall" -> {"grand", "entrance", "hall"}
      [] name = "Ancient Library" -> {"ancient", "library"}
      [] name = "Zen Garden" -> {"zen", "garden"}
      [] name = "Mirror Maze" -> {"mirror", "maze"}
      [] name = "Cloud Library" -> {"cloud", "library"}

\* the input with navigate / go to removed, trimmed and lower-cased
Targets == {"", "entrance", "library", "garden", "tower", "maze", "room_3"}

\* room.name.toLowerCase().includes(targetRoom) || key.includes(targetRoom)
matches(p, key, target) ==
    target = "" \/ target \in wordsOf(p[key].name) \/ key = target

Includes(seq, x) == \E i \in 1..Len(seq) : seq[i] = x

\* connections.map(c => this.palace.get(c)!.name) reads the name of a room
\* that is not there: TypeError
rendersMissing(p, key) ==
    \E i \in 1..Len(p[key].connections) : p[key].connections[i] \notin DOMAIN p

Visited(p, room, threw, msg) ==
    [palace |-> p, currentRoom |-> room, threw |-> threw, reply |-> Message(msg, "", 0)]

buildRoom(p, room, description) ==
    LET built == roomName(p)
    IN  Visited([key \in DOMAIN p \cup {built} |->
                    IF key = built THEN Room(description, <<room>>, 0)
                    ELSE IF key = room
                    THEN [p[key] EXCEPT !.connections = Append(@, built)]
                    ELSE p[key]],
                room, FALSE, "NEW ROOM MANIFESTED")

navigateToRoom(p, room, target) ==
    LET found == {i \in 1..Len(RoomKeys) :
                     RoomKeys[i] \in DOMAIN p /\ matches(p, RoomKeys[i], target)}
        key == RoomKeys[CHOOSE i \in found : \A j \in found : i <= j]
    IN  IF found = {} THEN Visited(p, room, FALSE, "Room not found")
        ELSE IF ~Includes(p[room].connections, key) /\ key # room
        THEN Visited(p, room, rendersMissing(p, room), "No direct path")
        ELSE Visited([p EXCEPT ![key].visitCount = @ + 1], key,
                     rendersMissing(p, key), "NAVIGATED TO")

RECURSIVE traverse(_, _)
\* the room keys traverse visits from the keys given
traverse(p, visited) ==
    LET next == visited \cup
                {c \in {RoomKeys[i] : i \in 1..Len(RoomKeys)} \cup {"tower"} :
                    \E key \in visited \cap DOMAIN p : Includes(p[key].connections, c)}
    IN  IF next = visited THEN visited ELSE traverse(p, next)

\* showPalaceMap reads room.name of every key it visits
showPalaceMap(p, room) ==
    Visited(p, room, ~(traverse(p, {"entrance"}) \subseteq DOMAIN p), "PALACE MAP")

\* safeProcessInput of a MemoryPalaceAgent: the checks, the handler and
\* recordSuccess, or handleError when the handler threw
Visit(op, word, v) ==
    LET input == [type |-> "string", len |-> 1, text |-> word]
        thrown == validate(input, history, isHealthy, now)
        caught == handleError(errorHistory, isHealthy, now,
                              IF thrown # "" THEN thrown ELSE "UNKNOWN_ERROR", TRUE)
        failed == thrown # "" \/ v.threw
    IN  /\ ops < MaxVisits
        /\ ops' = ops + 1
        /\ agentType = "MemoryPalaceAgent"
        /\ palace' = IF thrown = "" THEN v.palace ELSE palace
        /\ currentRoom' = IF thrown = "" THEN v.currentRoom ELSE currentRoom
        /\ errorHistory' = IF failed THEN caught.errorHistory ELSE errorHistory
        /\ isHealthy' = IF failed THEN caught.isHealthy
                        ELSE recordSuccess(errorHistory, isHealthy, now)
        /\ last' = Observed(op, input, IF v.threw THEN "throwError" ELSE "ok",
                            thrown = "", failed, FALSE,
                            IF failed THEN caught.result ELSE v.reply)
        /\ UNCHANGED <<now, constructed, history, memory, pending,
                       persistenceVars, gameVars, pipelineVars>>

BuildRoom(description) ==
    /\ Cardinality(DOMAIN palace) < MaxRooms
    /\ Visit("build", "build", buildRoom(palace, currentRoom, description))

NavigateToRoom(target) ==
    Visit("navigate", target, navigateToRoom(palace, currentRoom, target))

ShowPalaceMap ==
    Visit("map", "map", showPalaceMap(palace, currentRoom))

PalaceInit == Constructed("MemoryPalaceAgent", [canRemember |-> "true"])

PalaceNext ==
    \/ \E description \in RoomDescriptions : BuildRoom(description)
    \/ \E target \in Targets : NavigateToRoom(target)
    \/ ShowPalaceMap
    \/ ShortTick

SpecPalace == PalaceInit /\ [][PalaceNext]_vars

(***************************************************************************)
(* ReportPipeline.  A stage is its name, whether its execute throws, and   *)
(* its canSkip; the result of a stage is its input with its name appended. *)
(* A handler returns or throws.                                            *)
(***************************************************************************)
StageNames == {"s1", "s2"}

\* canSkip is not given, or returns true for every input
SkipKinds == {"none", "always"}

HandlerKinds == {"returns", "throws"}

PipelineStage == [name : StageNames, fails : BOOLEAN, canSkip : SkipKinds]

\* stage.canSkip && stage.canSkip(result)
skipped(stage, result) == stage.canSkip = "always"

Run(status, result, ran, handled, error) ==
    [status |-> status, result |-> result, ran |-> ran, handled |-> handled,
     error |-> error]

RECURSIVE executeFrom_Swallow(_, _, _, _, _, _)
\* execute going on to the next stage when a handler throws
executeFrom_Swallow(st, handlers, i, result, ran, handled) ==
    IF i > Len(st) THEN Run("returned", result, ran, handled, "none")
    ELSE IF skipped(st[i], result)
    THEN executeFrom_Swallow(st, handlers, i + 1, result, ran, handled)
    ELSE IF ~st[i].fails
    THEN executeFrom_Swallow(st, handlers, i + 1, Append(result, st[i].name),
                             Append(ran, i), handled)
    ELSE IF st[i].name \in DOMAIN handlers
    THEN executeFrom_Swallow(st, handlers, i + 1, result, Append(ran, i),
                             Append(handled, i))
    ELSE Run("failed", result, Append(ran, i), handled, "Pipeline failed at stage")

RECURSIVE executeFrom(_, _, _, _, _, _)
\* the loop of execute from stage i on: the stages executed, the handlers
\* called, the running result, and how the call ended
executeFrom(st, handlers, i, result, ran, handled) ==
    IF i > Len(st) THEN Run("returned", result, ran, handled, "none")
    ELSE IF skipped(st[i], result)
    THEN executeFrom(st, handlers, i + 1, result, ran, handled)
    ELSE IF ~st[i].fails
    THEN executeFrom(st, handlers, i + 1, Append(result, st[i].name),
                     Append(ran, i), handled)
    ELSE IF st[i].name \in DOMAIN handlers
    THEN IF handlers[st[i].name] = "returns"
         THEN executeFrom(st, handlers, i + 1, result, Append(ran, i),
                          Append(handled, i))
         ELSE Run("failed", result, Append(ran, i), Append(handled, i),
                  "thrown by the handler")
    ELSE Run("failed", result, Append(ran, i), handled, "Pipeline failed at stage")

addStage(stage) ==
    /\ Len(stages) < MaxStages
    /\ stages' = Append(stages, stage)
    /\ UNCHANGED <<sessionVars, persistenceVars, gameVars, palaceVars,
                   errorHandlers, executed>>

onError(stageName, handler) ==
    /\ errorHandlers' = [name \in DOMAIN errorHandlers \cup {stageName} |->
                            IF name = stageName THEN handler ELSE errorHandlers[name]]
    /\ UNCHANGED <<sessionVars, persistenceVars, gameVars, palaceVars,
                   stages, executed>>

execute ==
    /\ executed.n < MaxRuns
    /\ executed' = [n |-> executed.n + 1]
                   @@ executeFrom(stages, errorHandlers, 1, <<>>, <<>>, <<>>)
    /\ UNCHANGED <<sessionVars, persistenceVars, gameVars, palaceVars,
                   stages, errorHandlers>>

PipelineNext ==
    \/ \E stage \in PipelineStage : addStage(stage)
    \/ \E stageName \in StageNames, handler \in HandlerKinds : onError(stageName, handler)
    \/ execute

SpecPipeline == Init /\ [][PipelineNext]_vars

(***************************************************************************)
(* PersistenceManager.  A file holds the text JSON.stringify made of the   *)
(* state; what JSON.parse reads back is modelled by its value.             *)
(***************************************************************************)
\* a Date the caller keeps in memory, and the string JSON makes of it
DateValue == "Date(0)"
IsoValue == "1970-01-01T00:00:00.000Z"

\* the values the caller of remember stores
StoredValues == Values \cup {DateValue}

\* customData of saveAgentState: absent, or the caller's record
CustomData == {"{}", "custom"}

\* PersistenceManager.version, and the version of an earlier release
Version == "1.0.0"
OlderVersion == "0.9.0"

\* JSON.parse(JSON.stringify(value)) of a value kept in memory
jsonValue(value) == IF value = DateValue THEN IsoValue ELSE value

\* JSON.stringify of a turn: Date.prototype.toJSON gives the ISO string
jsonTurn(turn) ==
    [role |-> turn.role, content |-> turn.content,
     timestamp |-> [iso |-> turn.timestamp]]

\* new Date(isoString).getTime()
newDate(text) == text.iso

serializeMap(map) == [key \in Keys |-> map[key]]

deserializeMap(obj) == [key \in Keys |-> obj[key]]

\* the file saveAgentState writes for an agent
savedState(type, mem, h, customData, version) ==
    [agentType |-> type,
     memory |-> [key \in Keys |-> jsonValue(serializeMap(mem)[key])],
     history |-> [i \in 1..Len(h) |-> jsonTurn(h[i])],
     customData |-> customData,
     version |-> version]

\* loadAgentState: the parsed file, or null when there is none
loadAgentState(fs, id) == fs[id]

\* the memory and the history restoreAgentState assigns
restoreAgentState(state) ==
    [memory |-> deserializeMap(state.memory),
     history |-> [i \in 1..Len(state.history) |->
                    [state.history[i] EXCEPT
                        !.timestamp = newDate(state.history[i].timestamp)]]]

\* saveAgentState(id, agent, customData) of this release or an earlier one
SaveAs(id, customData, version) ==
    /\ files[id] = NoFile
    /\ files' = [files EXCEPT
                    ![id] = savedState(agentType, memory, history, customData, version)]
    /\ last' = [Observed("save", NoInput, "none", FALSE, FALSE, FALSE, NoResult)
                   EXCEPT !.key = id]
    /\ UNCHANGED <<ops, now, constructed, history, errorHistory, isHealthy, memory,
                   pending, loaded, exported, gameVars, palaceVars, pipelineVars>>

saveAgentState(id, customData) == SaveAs(id, customData, Version)

\* a file an earlier release of the program left in the data directory
OlderSave(id) ==
    /\ last.op = "init"
    /\ SaveAs(id, "{}", OlderVersion)

\* loadAgentState(id), called after a save: null for a missing file, a
\* warning for a file of another version
LoadAgentState(id) ==
    /\ last.op = "save"
    /\ loaded' = loadAgentState(files, id)
    /\ last' = [Observed("load", NoInput, "none", FALSE, FALSE, FALSE,
                    Message(IF loadAgentState(files, id) = NoFile
                            THEN "null" ELSE "state",
                            IF loadAgentState(files, id) # NoFile
                               /\ loadAgentState(files, id).version # Version
                            THEN "State version mismatch" ELSE "", 0))
                   EXCEPT !.key = id]
    /\ UNCHANGED <<ops, now, constructed, history, errorHistory, isHealthy, memory,
                   pending, files, exported, gameVars, palaceVars, pipelineVars>>

\* the caller constructs a new agent of the class and restores the loaded
\* state into it
RestoreAgentState ==
    /\ loaded # NoFile
    /\ last.op = "load"
    /\ memory' = restoreAgentState(loaded).memory
    /\ history' = restoreAgentState(loaded).history
    /\ errorHistory' = <<>>
    /\ isHealthy' = TRUE
    /\ last' = Observed("restore", NoInput, "none", FALSE, FALSE, FALSE, NoResult)
    /\ UNCHANGED <<ops, now, constructed, pending, persistenceVars, gameVars,
                   palaceVars, pipelineVars>>

\* exportAllStates, called after a save: the state loaded for every id
\* listSavedStates gives
exportAllStates ==
    /\ last.op = "save"
    /\ exported' = [id \in AgentIds |-> loadAgentState(files, id)]
    /\ exported' # exported
    /\ last' = Observed("export", NoInput, "none", FALSE, FALSE, FALSE, NoResult)
    /\ UNCHANGED <<ops, now, constructed, history, errorHistory, isHealthy, memory,
                   pending, files, loaded, gameVars, palaceVars, pipelineVars>>

\* the files importStates leaves: saveAgentState of a stand-in agent that
\* has a constructor name and neither memory nor history
importStates(states) ==
    [id \in AgentIds |->
        IF states[id] = NoFile THEN files[id]
        ELSE savedState(states[id].agentType, EmptyMemory, <<>>,
                        states[id].customData, Version)]

ImportStates ==
    /\ last.op = "export"
    /\ files' = importStates(exported)
    /\ last' = Observed("import", NoInput, "none", FALSE, FALSE, FALSE, NoResult)
    /\ UNCHANGED <<ops, now, constructed, history, errorHistory, isHealthy, memory,
                   pending, loaded, exported, gameVars, palaceVars, pipelineVars>>

\* agents constructed with and without canRemember
PersistInit ==
    \E type \in AgentTypes, caps \in {DefaultCapabilities, [canRemember |-> "true"]} :
        Constructed(type, caps)

PersistNext ==
    \/ \E key \in Keys, value \in StoredValues : Remember(key, value)
    \/ \E key \in Keys : Recall(key)
    \/ \E role \in Roles : AddTurn(role)
    \/ ShortTick
    \/ \E id \in AgentIds, customData \in CustomData : saveAgentState(id, customData)
    \/ \E id \in AgentIds : OlderSave(id)
    \/ \E id \in AgentIds : LoadAgentState(id)
    \/ RestoreAgentState
    \/ exportAllStates
    \/ ImportStates

SpecPersist == PersistInit /\ [][PersistNext]_vars

(***************************************************************************)
(* A long conversation: user and assistant turns are appended in turn,     *)
(* each carrying its index in the conversation.                            *)
(***************************************************************************)
CompactAppend ==
    /\ ops < MaxAppends
    /\ ops' = ops + 1
    /\ history' = addTurn(history,
                          Turn(IF ops % 2 = 0 THEN "user" ELSE "assistant",
                               Content("turn", ops), now), now)
    /\ last' = Observed("addTurn", NoInput, "none", FALSE, FALSE, FALSE, NoResult)
    /\ UNCHANGED <<now, constructed, elsewhere, errorHistory, isHealthy,
                   memory>>

CompactNext == CompactAppend \/ ShortTick \/ reset

SpecCompact == Init /\ [][CompactNext]_vars

(***************************************************************************)
(* The claims.                                                             *)
(***************************************************************************)
\* C11: in a burst of 25 calls within one minute to a session whose handler
\* always returns, calls 1 to 20 return the reply, and every call from the
\* 21st on returns the rate-limited message and adds one entry to the error
\* log until the log holds 10.
C11_TwentyThenLimited ==
    last.op = "submit" =>
        /\ ops <= MaxTurnsPerMinute =>
              (last.invoked /\ ~last.recorded /\ last.result.code = ""
               /\ last.result.msg \in {"success", "response"})
        /\ ops > MaxTurnsPerMinute =>
              /\ ~last.invoked /\ last.recorded
              /\ last.result = formatErrorResponse("RATE_LIMITED")
              /\ Len(errorHistory) =
                    IF ops - MaxTurnsPerMinute < MaxErrorHistory
                    THEN ops - MaxTurnsPerMinute ELSE MaxErrorHistory

\* C12: the error log never holds more than 10 entries and keeps them in
\* the order they were recorded; recording an error appends it, and when
\* the log already holds 10 the oldest entry alone is removed, leaving the
\* 9 most recent entries followed by the new one.
C12_LogCap ==
    [][/\ Len(errorHistory') <= MaxErrorHistory
       /\ \A i, j \in 1..Len(errorHistory') :
              i < j => errorHistory'[i].timestamp <= errorHistory'[j].timestamp
       /\ last'.recorded =>
              LET new == LastError(errorHistory')
              IN  /\ new.timestamp = now
                  /\ IF Len(errorHistory) < MaxErrorHistory
                     THEN errorHistory' = Append(errorHistory, new)
                     ELSE errorHistory' =
                              SubSeq(errorHistory, 2, MaxErrorHistory) \o <<new>>
       /\ (~last'.recorded /\ last'.op # "reset") =>
              errorHistory' = errorHistory]_vars

\* C12 witness: an INVALID_INPUT error was recorded into a log that held
\* the 10 errors of the failing loop, 6 of them UNKNOWN_ERROR: the oldest
\* was removed
C12_Witness ==
    /\ last.op = "submit" /\ last.recorded
    /\ Len(errorHistory) = MaxErrorHistory
    /\ LastError(errorHistory).code = "INVALID_INPUT"
    /\ Cardinality({i \in 1..Len(errorHistory) :
           errorHistory[i].code = "UNKNOWN_ERROR"}) = UnhealthyThreshold

\* C13: an append that brings the history to 101 turns leaves exactly 51:
\* the first 10 of the 101 unchanged at positions 0..9, at position 10 one
\* system turn that carries the number 51, and the last 40 of the 101
\* unchanged at positions 11..50.
C13_Compaction ==
    [][(last'.op = "addTurn" /\ Len(history) = MaxHistory) =>
          LET pushed == Append(history, history'[Len(history')])
              marker == history'[KeepFirst + 1]
          IN  /\ Len(history') = KeepFirst + 1 + KeepLast
              /\ \A i \in 1..KeepFirst : history'[i] = pushed[i]
              /\ marker.role = "system"
              /\ marker.content = Content("turns compressed", KeepFirst + 1 + KeepLast)
              /\ \A i \in 1..KeepLast :
                     history'[KeepFirst + 1 + i] = pushed[Len(pushed) - KeepLast + i]
              /\ Len(pushed) = MaxHistory + 1]_vars

\* C13 witness: turn 100 of the conversation was appended to a history of
\* 100 turns; turns 0..9, the marker and turns 61..100 remain
C13_Witness ==
    /\ last.op = "addTurn"
    /\ Len(history) = KeepFirst + 1 + KeepLast
    /\ history[1].content = Content("turn", 0)
    /\ history[KeepFirst].content = Content("turn", KeepFirst - 1)
    /\ history[KeepFirst + 1].role = "system"
    /\ history[KeepFirst + 2].content = Content("turn", MaxHistory - KeepLast + 1)
    /\ history[Len(history)].content = Content("turn", MaxHistory)

\* C14: after every addTurn the history holds at most 100 turns; the
\* history is compressed exactly when the append makes it longer than 100,
\* never at 100 or below, and the compressed history holds 51 turns.
C14_CompactionTrigger ==
    [][last'.op = "addTurn" =>
          LET pushed == Append(history, history'[Len(history')])
          IN  /\ Len(history') <= MaxHistory
              /\ Len(pushed) <= MaxHistory => history' = pushed
              /\ Len(pushed) > MaxHistory =>
                    (history' # pushed /\ Len(history') = KeepFirst + 1 + KeepLast)]_vars

\* C14 witness: an append brought the history to exactly 100 turns and
\* nothing was compressed
C14_Witness ==
    /\ last.op = "addTurn"
    /\ Len(history) = MaxHistory
    /\ \A i \in 1..Len(history) : history[i].content = Content("turn", i - 1)

C16_Reset ==
    [][last'.op = "reset" =>
          /\ history' = <<>>
          /\ memory' = EmptyMemory
          /\ errorHistory' = <<>>
          /\ isHealthy'
          /\ capabilities' = capabilities
          /\ context' = context
          /\ last.op = "reset" =>
                UNCHANGED <<history, memory, errorHistory, isHealthy>>]_vars

\* C16 witness: reset was called on an unhealthy, rate-limited session
\* that held a remembered value
C16_Witness ==
    /\ last.op = "reset"
    /\ ~last.wasHealthy /\ last.wasLimited /\ last.hadMemory
    /\ isHealthy /\ memory = EmptyMemory /\ history = <<>> /\ errorHistory = <<>>

\* C17: after every call that passed the checks and whose handler returned
\* a reply, whatever the handler, the history contains a user turn whose
\* text is the input and an assistant turn whose text is the reply.
C17_TurnsRecorded ==
    (last.op = "submit" /\ last.invoked /\ last.outcome = "ok") =>
        /\ \E i \in 1..Len(history) :
              history[i].role = "user" /\ history[i].content.text = last.input.text
        /\ \E i \in 1..Len(history) :
              history[i].role = "assistant"
              /\ history[i].content.text = last.result.msg

\* C18: a call that fails, by a check or by the handler, leaves the
\* history and the memory as they were before the call.
C18_FailureLeavesHistory ==
    [][(last'.op = "submit" /\ (last'.recorded \/ last'.raised)) =>
          (history' = history /\ memory' = memory)]_vars

\* C19: safeMemoryOperation returns the result of the operation and
\* records nothing when the operation returns; when the operation throws
\* it returns the fallback, nothing is thrown to the caller, and exactly
\* one entry MEMORY_ERROR, recoverable, is added to the error log.
C19_SafeMemoryOperation ==
    [][last'.op = "memory" =>
          /\ ~last'.raised
          /\ history' = history /\ memory' = memory
          /\ IF last'.outcome = "ok"
             THEN /\ last'.result = Message("result", "", 0)
                  /\ ~last'.recorded
                  /\ errorHistory' = errorHistory
                  /\ isHealthy' = isHealthy
             ELSE /\ last'.result = Message("fallback", "", 0)
                  /\ last'.recorded
                  /\ LastError(errorHistory') = AgentError("MEMORY_ERROR", now, TRUE)
                  /\ errorHistory' =
                        SliceLast(Append(errorHistory, LastError(errorHistory')),
                                  MaxErrorHistory)]_vars

\* C19 witness: the operation threw and the fallback was returned, with
\* MEMORY_ERROR as the newest entry of the log
C19_Witness ==
    /\ last.op = "memory" /\ last.outcome = "throwError"
    /\ last.result = Message("fallback", "", 0)
    /\ Len(errorHistory) = 1
    /\ LastError(errorHistory).code = "MEMORY_ERROR"
    /\ LastError(errorHistory).recoverable

C21_RememberedSurvives ==
    [][(last.op = "remember" /\ last.value \in Values
        /\ capabilities = DefaultCapabilities /\ last'.op = "save") =>
          LET state == loadAgentState(files', last'.key)
          IN  /\ state.agentType = agentType
              /\ recall(restoreAgentState(state).memory, last.key) = last.value]_vars

\* C22: whatever the state of the agent, the state saved, loaded and
\* restored into a new agent gives it a memory with the same keys and
\* values and a history with the same turns in the same order, their
\* timestamps dates again; loading an id never saved returns null, and a
\* file of another version is loaded all the same.
C22_RoundTrip ==
    [][/\ last'.op = "save" =>
              LET restored == restoreAgentState(loadAgentState(files', last'.key))
              IN  /\ restored.memory = memory
                  /\ Len(restored.history) = Len(history)
                  /\ \A i \in 1..Len(history) : restored.history[i] = history[i]
       /\ last'.op = "load" =>
              /\ ~last'.raised
              /\ loaded' = files[last'.key]
              /\ files[last'.key] = NoFile => last'.result.msg = "null"]_vars

\* C28: importStates applied to what exportAllStates returned leaves, for
\* every stored state, the memory, the history, the agentType and the
\* customData that were stored before the import.
C28_ImportKeepsStates ==
    [][last'.op = "import" =>
          \A id \in AgentIds :
              exported[id] # NoFile =>
                  /\ files'[id].memory = exported[id].memory
                  /\ files'[id].history = exported[id].history
                  /\ files'[id].agentType = exported[id].agentType
                  /\ files'[id].customData = exported[id].customData]_vars

C23_HealthRestored ==
    [][(~isHealthy /\ isHealthy') =>
          \/ last'.op = "reset"
          \/ /\ last'.op \in {"submit", "complete"}
             /\ last'.invoked /\ last'.outcome = "ok" /\ ~last'.recorded
             /\ Within(errorHistory, now, RecoveryWindow) < RecoveryThreshold]_vars

\* C23 witness: a handler success was recorded on an unhealthy session
\* whose log held 6 errors or more, all older than 5 minutes, and the
\* session is healthy again
C23_Witness ==
    /\ last.op = "complete" /\ last.outcome = "ok"
    /\ ~last.wasHealthy /\ isHealthy
    /\ Len(errorHistory) > UnhealthyThreshold
    /\ Within(errorHistory, now, RecoveryWindow) = 0

\* C25: when calls overlap at the await of the handler, a call that passed
\* the health check and whose handler returns after other calls have made
\* the session unhealthy makes it healthy again exactly when fewer than 3
\* entries of the error log lie within the trailing 5 minutes at that
\* moment; it returns the reply of the handler and records no error.
C25_OverlapRestores ==
    [][(last'.op = "complete" /\ last'.outcome = "ok") =>
          /\ isHealthy' =
                (isHealthy \/ Within(errorHistory, now, RecoveryWindow) < RecoveryThreshold)
          /\ errorHistory' = errorHistory
          /\ ~last'.recorded /\ ~last'.raised
          /\ last'.result.msg \in {"success", "response"}]_vars

\* C25 witness: the handler of a call begun on a healthy session returned
\* while the session was unhealthy, and the session became healthy
C25_Witness ==
    /\ last.op = "complete" /\ last.invoked /\ ~last.recorded
    /\ last.result.msg \in {"success", "response"}
    /\ ~last.wasHealthy /\ isHealthy

\* C27: while the turns appended have role user or assistant, the history
\* holds at most one system marker and it is at position 10; an append,
\* compressing or not, leaves the first ten turns appended since the
\* construction or the last reset at positions 0..9.
C27_OneMarker ==
    [][/\ \A i \in 1..Len(history') :
              history'[i].role = "system" =>
                  (i = KeepFirst + 1 /\ history'[i].content.text = "turns compressed")
       /\ last'.op = "addTurn" =>
              \A i \in 1..KeepFirst :
                  i <= Len(history) => history'[i] = history[i]]_vars

\* C27 witness: the history was compressed a second time, at the append of
\* turn 150; turns 0..9, one marker and turns 111..150 remain
C27_Witness ==
    /\ last.op = "addTurn"
    /\ Len(history) = KeepFirst + 1 + KeepLast
    /\ history[1].content = Content("turn", 0)
    /\ history[KeepFirst + 1].role = "system"
    /\ history[KeepFirst + 2].content = Content("turn", 2 * MaxHistory - CompressedSize - KeepLast + 1)
    /\ history[Len(history)].content = Content("turn", 2 * MaxHistory - CompressedSize)

\* the fields of the game state the player sees
Visible(g) ==
    <<g.location, g.health, g.level, g.experience, g.inventory, g.questLog>>

\* C26: after 'save game' returned the save id S, the input 'load S'
\* restores location, health, level, experience, inventory and quest log
\* to their values at the time of the save and replies that the game was
\* loaded from S.
C26_SaveLoadRoundTrip ==
    [][\A S \in DOMAIN savedGames :
          (last'.op = "play" /\ last'.invoked
           /\ last'.input.text = Text(<<"load">>, SaveId(S))) =>
              /\ Visible(gameState') = Visible(savedGames[S])
              /\ last'.result = Message("Game loaded", "", S)]_vars

\* C29: in every state of a MemoryPalaceAgent, the freshly constructed one
\* included, currentRoom is a key of the palace and so is every key listed
\* in the connections of a room; navigating and rendering the map never
\* look up a room that is not there.
C29_PalaceClosed ==
    /\ currentRoom \in DOMAIN palace
    /\ \A key \in DOMAIN palace : ~rendersMissing(palace, key)
    /\ last.op \in {"navigate", "map"} => last.outcome = "ok"

\* the last stage an execution reached
Stopped(r) == r.ran[Len(r.ran)]

\* the names of the stages of r.ran whose execute returned
Returned(st, r) ==
    LET ok == SelectSeq(r.ran, LAMBDA i : ~st[i].fails)
    IN  [k \in 1..Len(ok) |-> st[ok[k]].name]

\* C30 as stated: execute runs every stage in the order of addition; a
\* stage that fails without a handler ends the execution with an error
\* naming the stage; a stage that fails with a handler has the handler
\* called once, leaves the running result as it was, and the next stage
\* runs.
C30_AsStated ==
    [][executed'.n # executed.n =>
          LET r == executed'
          IN  /\ \A k \in 1..Len(r.ran) : r.ran[k] = k
              /\ r.result = Returned(stages, r)
              /\ \A k \in 1..Len(r.ran) :
                     (stages[k].fails /\ stages[k].name \notin DOMAIN errorHandlers) =>
                         /\ r.status = "failed"
                         /\ r.error = "Pipeline failed at stage"
                         /\ Stopped(r) = k
              /\ \A k \in 1..Len(r.ran) :
                     (stages[k].fails /\ stages[k].name \in DOMAIN errorHandlers) =>
                         /\ Len(SelectSeq(r.handled, LAMBDA i : i = k)) = 1
                         /\ k < Len(stages) => \E j \in 1..Len(r.ran) : r.ran[j] = k + 1
              /\ r.status = "returned" => Len(r.ran) = Len(stages)]_vars

\* C30 amended: execute runs, in the order of addition, the stages whose
\* canSkip does not pass them over, each receiving the running result; a
\* stage that fails without a handler ends the execution with an error
\* naming the stage; a stage that fails with a handler has the handler
\* called once and leaves the running result as it was, and the execution
\* goes on after it when the handler returns and ends with the error of
\* the handler when the handler throws.
C30_Execute ==
    [][executed'.n # executed.n =>
          LET r == executed'
              reached == IF r.status = "returned" THEN Len(stages) ELSE Stopped(r)
          IN  /\ \A k \in 1..Len(r.ran) : r.ran[k] \in 1..Len(stages)
              /\ \A j, k \in 1..Len(r.ran) : j < k => r.ran[j] < r.ran[k]
              /\ \A i \in 1..reached :
                     (\E k \in 1..Len(r.ran) : r.ran[k] = i) <=> stages[i].canSkip = "none"
              /\ r.result = Returned(stages, r)
              /\ \A k \in 1..Len(r.ran) :
                     LET stage == stages[r.ran[k]]
                         handler == IF stage.name \in DOMAIN errorHandlers
                                    THEN errorHandlers[stage.name] ELSE "none"
                     IN  /\ stage.fails =>
                               Len(SelectSeq(r.handled, LAMBDA i : i = r.ran[k]))
                                   = IF handler = "none" THEN 0 ELSE 1
                         /\ ~stage.fails =>
                               Len(SelectSeq(r.handled, LAMBDA i : i = r.ran[k])) = 0
                         /\ (stage.fails /\ handler = "none") =>
                               /\ r.status = "failed" /\ k = Len(r.ran)
                               /\ r.error = "Pipeline failed at stage"
                         /\ (stage.fails /\ handler = "throws") =>
                               /\ r.status = "failed" /\ k = Len(r.ran)
                               /\ r.error = "thrown by the handler"
                         /\ (r.status = "failed" /\ k = Len(r.ran)) =>
                               (stage.fails /\ handler # "returns")]_vars

\* C30 witness: an execution returned after a stage failed and its handler
\* returned, a stage was passed over and a later stage ran
C30_Witness ==
    /\ executed.status = "returned"
    /\ Len(stages) = MaxStages
    /\ executed.handled = <<1>>
    /\ executed.ran = <<1, Len(stages)>>
    /\ executed.result = <<stages[Len(stages)].name>>

====
